---- MODULE Spec2Model ----
(***************************************************************************)
(* Model of the module-task affinity engine of bin/affinity.py.            *)
(*                                                                         *)
(* Numbers.  Scores and fitness deltas are kept in thousandths (0.72 is    *)
(* 720, a delta of +0.05 is 50).  The learning rate is the exact fraction  *)
(* <<numerator, denominator>>.  Every stored score has at most 3 decimals, *)
(* so the thousandths are exact; round(x, 3) of a value that lies exactly  *)
(* half way between two thousandths depends on the binary representation   *)
(* of x and may fall on either neighbour: Round3 returns both.             *)
(*                                                                         *)
(* Dictionaries that the code iterates (the matrix, the variants of a      *)
(* module type, the modules of a call) are sequences in insertion order.   *)
(*                                                                         *)
(* Specifications.  Spec: update_affinity calls one at a time, each save   *)
(* succeeding, failing at open() or failing after the truncation.          *)
(* SpecOps: load, best_for and update calls one at a time.  SpecConc: two  *)
(* update_affinity calls and a load in separate processes, interleaved at  *)
(* their file operations.  SpecRate: the learning rate at successive       *)
(* counters.  SpecClassify: classify_task on texts of a few words.         *)
(* SpecReads: one process that loads, shows, suggests, asks for the best   *)
(* modules and updates.  SpecAdjust: one adjustment of a score, for every  *)
(* counter.  SpecLearn: one run of learn_from_telemetry over session files. *)
(***************************************************************************)
EXTENDS Integers, Sequences, FiniteSets, TLC

VARIABLES
    file,               \* the contents of AFFINITY_FILE
    DEFAULT_AFFINITY,   \* the module-level dict of the running process
    clock,              \* the UTC clock that save_affinity_matrix reads
    calls,              \* number of update_affinity and round-trip calls so far
    last,               \* the last API call: its inputs, what it loaded, its outcome
    pc,                 \* position of each concurrent updater / reader
    local,              \* the local variables of each concurrent updater / reader
    pure                \* a pure function call or a learn run: name, argument, result

vars == <<file, DEFAULT_AFFINITY, clock, calls, last, pc, local, pure>>

----------------------------------------------------------------------------
(* Bounds of the model *)

MaxCalls == 2

\* largest observations count of the learning-rate runs
MaxObs == 600

\* largest number of words of a classified text
MaxWords == 2

----------------------------------------------------------------------------
(* TASK_PATTERNS keys and DEFAULT_AFFINITY *)

TaskTypes ==
    <<"planning", "debugging", "refactoring", "documentation", "testing",
      "review", "generation">>

Row(p, d, r, doc, t, rev, g) ==
    [tt \in {"planning", "debugging", "refactoring", "documentation", "testing",
             "review", "generation"} |->
        CASE tt = "planning" -> p
          [] tt = "debugging" -> d
          [] tt = "refactoring" -> r
          [] tt = "documentation" -> doc
          [] tt = "testing" -> t
          [] tt = "review" -> rev
          [] tt = "generation" -> g]

V(name, scores) == [variant |-> name, scores |-> scores]

M(name, variants) == [module_type |-> name, variants |-> variants]

SeedAffinity ==
    << M("research",
         << V("v1", Row(720, 450, 680, 500, 550, 600, 650)),
            V("v2", Row(810, 520, 710, 650, 600, 750, 700)),
            V("v3", Row(650, 780, 590, 400, 700, 550, 800)) >>),
       M("structure",
         << V("v1", Row(880, 610, 740, 700, 650, 800, 720)),
            V("v2", Row(710, 690, 820, 600, 750, 680, 780)),
            V("v3", Row(600, 750, 650, 450, 800, 550, 850)) >>),
       M("output",
         << V("v1", Row(850, 600, 700, 800, 550, 750, 650)),
            V("v2", Row(700, 700, 750, 650, 700, 650, 750)),
            V("v3", Row(550, 800, 600, 400, 850, 500, 880)) >>),
       M("workflow",
         << V("v1", Row(800, 550, 650, 700, 600, 850, 600)),
            V("v2", Row(750, 700, 800, 650, 750, 700, 700)),
            V("v3", Row(650, 850, 700, 500, 800, 600, 850)) >>),
       M("input",
         << V("v1", Row(700, 750, 650, 800, 700, 750, 600)),
            V("v2", Row(750, 700, 700, 650, 650, 700, 750)) >>),
       M("validation",
         << V("v1", Row(600, 850, 800, 500, 900, 750, 700)),
            V("v2", Row(700, 800, 850, 550, 850, 800, 750)),
            V("v3", Row(800, 500, 600, 700, 550, 650, 800)) >>) >>

----------------------------------------------------------------------------
(* Dictionary access on the matrix *)

\* scores.get(task_type, 0.5)
Neutral == 500

\* mutant: scores.get(task_type, 0)
ScoreGetZero(scores, tt) == IF tt \in DOMAIN scores THEN scores[tt] ELSE 0

ScoreGet(scores, tt) == IF tt \in DOMAIN scores THEN scores[tt] ELSE Neutral

\* mutant: the new value written for every task type of the variant
ScoreSetEvery(scores, tt, value) ==
    [t \in (DOMAIN scores) \cup {tt} |-> value]

\* scores[task_type] = value
ScoreSet(scores, tt, value) ==
    [x \in (DOMAIN scores) \cup {tt} |-> IF x = tt THEN value ELSE scores[x]]

\* position of module_type among the keys of matrix, 0 when it is no key
ModuleIndex(matrix, mt) ==
    IF \E i \in 1..Len(matrix) : matrix[i].module_type = mt
    THEN CHOOSE i \in 1..Len(matrix) : matrix[i].module_type = mt
    ELSE 0

\* position of variant among the keys of matrix[module_type], 0 when it is no key
VariantIndex(variants, v) ==
    IF \E j \in 1..Len(variants) : variants[j].variant = v
    THEN CHOOSE j \in 1..Len(variants) : variants[j].variant = v
    ELSE 0

\* module_type in matrix and variant in matrix[module_type]
Known(matrix, mt, v) ==
    /\ ModuleIndex(matrix, mt) # 0
    /\ VariantIndex(matrix[ModuleIndex(matrix, mt)].variants, v) # 0

\* matrix[module_type][variant], for a known pair
ScoresOf(matrix, mt, v) ==
    LET vs == matrix[ModuleIndex(matrix, mt)].variants
    IN  vs[VariantIndex(vs, v)].scores

\* the keys (module_type, variant, task_type) present in the matrix
Keys(matrix) ==
    UNION { UNION { { <<matrix[i].module_type, matrix[i].variants[j].variant, tt>> :
                        tt \in DOMAIN matrix[i].variants[j].scores } :
                    j \in 1..Len(matrix[i].variants) } :
            i \in 1..Len(matrix) }

\* every score stored in the matrix
StoredScores(matrix) ==
    { ScoresOf(matrix, k[1], k[2])[k[3]] : k \in Keys(matrix) }

----------------------------------------------------------------------------
(* The persisted file and the values json.load can return *)

NoMatrix == << >>

\* last_updated: None is the empty sequence, a stamp is <<time>>
Never == << >>

\* a JSON object: the keys it has and their values
Object(hasMatrix, matrix, hasObs, observations, last_updated) ==
    [kind |-> "object", hasMatrix |-> hasMatrix, matrix |-> matrix,
     hasObs |-> hasObs, observations |-> observations,
     last_updated |-> last_updated]

\* a JSON value that is no object (a list, a number, null)
NonObject ==
    [kind |-> "nonobject", hasMatrix |-> FALSE, matrix |-> NoMatrix,
     hasObs |-> FALSE, observations |-> 0, last_updated |-> Never]

\* no file at AFFINITY_FILE
Missing ==
    [kind |-> "missing", hasMatrix |-> FALSE, matrix |-> NoMatrix,
     hasObs |-> FALSE, observations |-> 0, last_updated |-> Never]

\* a file json.load cannot parse: empty (just truncated), cut short, or garbage
Unparsable ==
    [kind |-> "unparsable", hasMatrix |-> FALSE, matrix |-> NoMatrix,
     hasObs |-> FALSE, observations |-> 0, last_updated |-> Never]

\* {"matrix": DEFAULT_AFFINITY, "observations": 0, "last_updated": None}
DefaultState(default) == Object(TRUE, default, TRUE, 0, Never)

\* load_affinity_matrix: the value returned for file contents f
load_affinity_matrix(f, default) ==
    IF f.kind \in {"object", "nonobject"} THEN f ELSE DefaultState(default)

\* TRUE when the returned dict holds DEFAULT_AFFINITY itself (no copy is made)
LoadAliasesDefault(f) == f.kind \notin {"object", "nonobject"}

\* data.get("observations", 0)
ObservationsGet(data) == IF data.hasObs THEN data.observations ELSE 0

\* the dict as save_affinity_matrix writes it: data["last_updated"] = now
Stamped(data, now) ==
    Object(data.hasMatrix, data.matrix, data.hasObs, data.observations, <<now>>)

----------------------------------------------------------------------------
(* The JSON text of a state: json.dump writes numbers as decimal digits and *)
(* json.load reads them back.  Keys are strings and keep their order both   *)
(* ways, so only the numbers are converted.                                 *)

DigitChars == <<"0", "1", "2", "3", "4", "5", "6", "7", "8", "9">>

DigitValue(c) == CHOOSE n \in 0..9 : DigitChars[n + 1] = c

\* an int as json.dump writes it: its decimal digits
RECURSIVE IntRepr(_)
IntRepr(n) ==
    IF n < 10 THEN <<DigitChars[n + 1]>>
    ELSE IntRepr(n \div 10) \o <<DigitChars[(n % 10) + 1]>>

\* the digits after the point of a float with at most three decimals: repr drops
\* trailing zeros and keeps one digit at least (0.72, 0.615, 0.5, 1.0)
FracRepr(f) ==
    IF f % 100 = 0 THEN IntRepr(f \div 100)
    ELSE IF f % 10 = 0
         THEN <<DigitChars[(f \div 100) + 1], DigitChars[((f \div 10) % 10) + 1]>>
         ELSE <<DigitChars[(f \div 100) + 1], DigitChars[((f \div 10) % 10) + 1],
                DigitChars[(f % 10) + 1]>>

\* a score (thousandths) as json.dump writes the float
FloatRepr(score) == IntRepr(score \div 1000) \o <<".">> \o FracRepr(score % 1000)

\* the int json.load reads from digits
RECURSIVE ParseInt(_)
ParseInt(digits) ==
    IF digits = << >> THEN 0
    ELSE 10 * ParseInt(SubSeq(digits, 1, Len(digits) - 1))
         + DigitValue(digits[Len(digits)])

\* the place of the decimal point
PointAt(text) == CHOOSE i \in 1..Len(text) : text[i] = "."

\* the decimals read as 0.d, 0.dd or 0.ddd, in thousandths
FracValue(digits) ==
    CASE Len(digits) = 1 -> 100 * ParseInt(digits)
      [] Len(digits) = 2 -> 10 * ParseInt(digits)
      [] OTHER -> ParseInt(digits)

\* mutant: the decimals read as an integer number of thousandths
ParseFloatUnscaled(text) ==
    1000 * ParseInt(SubSeq(text, 1, PointAt(text) - 1))
    + ParseInt(SubSeq(text, PointAt(text) + 1, Len(text)))

\* the float json.load reads, in thousandths
ParseFloat(text) ==
    1000 * ParseInt(SubSeq(text, 1, PointAt(text) - 1))
    + FracValue(SubSeq(text, PointAt(text) + 1, Len(text)))

\* the matrix with each score written as text
DumpScores(matrix) ==
    [i \in 1..Len(matrix) |->
        M(matrix[i].module_type,
          [j \in 1..Len(matrix[i].variants) |->
              V(matrix[i].variants[j].variant,
                [tt \in DOMAIN matrix[i].variants[j].scores |->
                    FloatRepr(matrix[i].variants[j].scores[tt])])])]

\* the matrix with each score read from its text
LoadScores(matrix) ==
    [i \in 1..Len(matrix) |->
        M(matrix[i].module_type,
          [j \in 1..Len(matrix[i].variants) |->
              V(matrix[i].variants[j].variant,
                [tt \in DOMAIN matrix[i].variants[j].scores |->
                    ParseFloat(matrix[i].variants[j].scores[tt])])])]

\* json.dump(data, f, indent=2): the text written for the dict
json_dump(data) ==
    [data EXCEPT !.matrix = DumpScores(data.matrix),
                 !.observations = IntRepr(data.observations)]

\* json.load(f) of a text json.dump wrote
json_load(text) ==
    [text EXCEPT !.matrix = LoadScores(text.matrix),
                 !.observations = ParseInt(text.observations)]

----------------------------------------------------------------------------
(* update_affinity: the arithmetic *)

\* mutant: 0.3 / (1 + observations * 0.01), the floor forgotten
LearningRateNoFloor(observations) == <<30, 100 + observations>>

\* mutant: the rate computed after the counter was incremented
LearningRateLate(observations) ==
    LET decayed == <<30, 100 + observations + 1>>
        floor   == <<5, 100>>
    IN  IF decayed[1] * floor[2] >= floor[1] * decayed[2] THEN decayed ELSE floor

\* max(0.05, 0.3 / (1 + observations * 0.01)) as a fraction <<n, d>>, d > 0
LearningRate(observations) ==
    LET decayed == <<30, 100 + observations>>
        floor   == <<5, 100>>
    IN  IF decayed[1] * floor[2] >= floor[1] * decayed[2] THEN decayed ELSE floor

\* current + fitness_delta * learning_rate, in thousandths, as a fraction
Adjusted(current, fitness_delta, rate) ==
    <<current * rate[2] + fitness_delta * rate[1], rate[2]>>

\* mutant: max(0.1, x), the upper bound forgotten
ClampFloorOnly(x) == IF 100 * x[2] > x[1] THEN <<100, 1>> ELSE x

\* max(0.1, min(0.99, x)) of a fraction x
Clamp(x) ==
    LET capped == IF 990 * x[2] < x[1] THEN <<990, 1>> ELSE x
    IN  IF 100 * capped[2] > capped[1] THEN <<100, 1>> ELSE capped

\* mutant: round(x, 2), the nearest hundredth
Round2(x) ==
    LET q == x[1] \div (10 * x[2])
        r == x[1] % (10 * x[2])
    IN  IF 2 * r < 10 * x[2] THEN {10 * q}
        ELSE IF 2 * r > 10 * x[2] THEN {10 * q + 10}
        ELSE {10 * q, 10 * q + 10}

\* round(x, 3): the nearest thousandth; both neighbours on an exact half
Round3(x) ==
    LET q == x[1] \div x[2]
        r == x[1] % x[2]
    IN  IF 2 * r < x[2] THEN {q}
        ELSE IF 2 * r > x[2] THEN {q + 1}
        ELSE {q, q + 1}

\* the values line 139 can store for one known pair
NewScores(current, fitness_delta, rate) ==
    Round3(Clamp(Adjusted(current, fitness_delta, rate)))

\* matrix with matrix[mt][v][tt] = value, for a known pair
MatrixSet(matrix, mt, v, tt, value) ==
    LET i  == ModuleIndex(matrix, mt)
        vs == matrix[i].variants
        j  == VariantIndex(vs, v)
    IN  [matrix EXCEPT ![i].variants[j].scores = ScoreSet(vs[j].scores, tt, value)]

\* mutant: an unknown pair is created (setdefault) instead of skipped
TouchPairCreating(matrix, pair, tt, fitness_delta, rate) ==
    LET new == { ScoreSet(<< >>, tt, n) : n \in NewScores(Neutral, fitness_delta, rate) }
        i   == ModuleIndex(matrix, pair[1])
    IN  IF Known(matrix, pair[1], pair[2])
        THEN { MatrixSet(matrix, pair[1], pair[2], tt, n) :
                 n \in NewScores(ScoreGet(ScoresOf(matrix, pair[1], pair[2]), tt),
                                 fitness_delta, rate) }
        ELSE IF i = 0
        THEN { Append(matrix, M(pair[1], <<V(pair[2], sc)>>)) : sc \in new }
        ELSE { [matrix EXCEPT ![i].variants = Append(@, V(pair[2], sc))] : sc \in new }

\* one iteration of the loop over modules.items(): the matrices it can leave
TouchPair(matrix, pair, tt, fitness_delta, rate) ==
    IF Known(matrix, pair[1], pair[2])
    THEN { MatrixSet(matrix, pair[1], pair[2], tt, n) :
             n \in NewScores(ScoreGet(ScoresOf(matrix, pair[1], pair[2]), tt),
                             fitness_delta, rate) }
    ELSE {matrix}

\* the loop over modules.items() from position i on
RECURSIVE ApplyModules(_, _, _, _, _, _)
ApplyModules(matrix, modules, i, tt, fitness_delta, rate) ==
    IF i > Len(modules) THEN {matrix}
    ELSE UNION { ApplyModules(m, modules, i + 1, tt, fitness_delta, rate) :
                   m \in TouchPair(matrix, modules[i], tt, fitness_delta, rate) }

\* mutant: the increment inside the loop, once per pair touched
NextObservationsPerPair(observations, modules, matrix) ==
    observations
      + Cardinality({ i \in 1..Len(modules) : Known(matrix, modules[i][1], modules[i][2]) })

\* data["observations"] = observations + 1
NextObservations(observations, modules, matrix) == observations + 1

\* data["matrix"] raises: TypeError on a non-object, KeyError without the key
UpdateRaisesOnLoad(data) == data.kind # "object" \/ ~data.hasMatrix

\* the dicts `data` can be when update_affinity reaches save_affinity_matrix
UpdatedData(data, tt, modules, fitness_delta) ==
    LET observations == ObservationsGet(data)
        rate == LearningRate(observations)
    IN  { Object(TRUE, m, TRUE, NextObservations(observations, modules, data.matrix),
                 data.last_updated) :
            m \in ApplyModules(data.matrix, modules, 1, tt, fitness_delta, rate) }

----------------------------------------------------------------------------
(* get_best_modules *)

\* mutant: best_score = score forgotten, only best_variant is updated
RECURSIVE ScanVariantsStale(_, _, _, _, _)
ScanVariantsStale(variants, j, tt, best_variant, best_score) ==
    IF j > Len(variants) THEN <<best_variant, best_score>>
    ELSE LET score == ScoreGet(variants[j].scores, tt)
         IN  IF score > best_score
             THEN ScanVariantsStale(variants, j + 1, tt, variants[j].variant, best_score)
             ELSE ScanVariantsStale(variants, j + 1, tt, best_variant, best_score)

\* mutant: score >= best_score, so the last of several equal variants wins
RECURSIVE ScanVariantsGeq(_, _, _, _, _)
ScanVariantsGeq(variants, j, tt, best_variant, best_score) ==
    IF j > Len(variants) THEN <<best_variant, best_score>>
    ELSE LET score == ScoreGet(variants[j].scores, tt)
         IN  IF score >= best_score
             THEN ScanVariantsGeq(variants, j + 1, tt, variants[j].variant, score)
             ELSE ScanVariantsGeq(variants, j + 1, tt, best_variant, best_score)

\* the inner loop over variants.items() from position j on: <<best_variant, best_score>>
RECURSIVE ScanVariants(_, _, _, _, _)
ScanVariants(variants, j, tt, best_variant, best_score) ==
    IF j > Len(variants) THEN <<best_variant, best_score>>
    ELSE LET score == ScoreGet(variants[j].scores, tt)
         IN  IF score > best_score
             THEN ScanVariants(variants, j + 1, tt, variants[j].variant, score)
             ELSE ScanVariants(variants, j + 1, tt, best_variant, best_score)

\* mutant: the test `if best_variant` dropped, every module_type gets an entry
RECURSIVE BestFromUnguarded(_, _, _)
BestFromUnguarded(matrix, i, tt) ==
    IF i > Len(matrix) THEN << >>
    ELSE LET b == ScanVariants(matrix[i].variants, 1, tt, "", -1000)
         IN  <<[module_type |-> matrix[i].module_type, variant |-> b[1],
                score |-> b[2]]>> \o BestFromUnguarded(matrix, i + 1, tt)

\* the outer loop over matrix.items() from position i on; best_variant None is ""
RECURSIVE BestFrom(_, _, _)
BestFrom(matrix, i, tt) ==
    IF i > Len(matrix) THEN << >>
    ELSE LET b == ScanVariants(matrix[i].variants, 1, tt, "", -1000)
         IN  IF b[1] # ""
             THEN <<[module_type |-> matrix[i].module_type, variant |-> b[1],
                     score |-> b[2]]>> \o BestFrom(matrix, i + 1, tt)
             ELSE BestFrom(matrix, i + 1, tt)

get_best_modules(tt, matrix) == BestFrom(matrix, 1, tt)

----------------------------------------------------------------------------------------------------------------------------------------
(* Inputs of the calls *)

\* task_type arguments: one of the enumeration and one outside it
UpdTaskTypes == {"testing", "deployment"}

\* modules arguments, as modules.items(): no pair; only unknown pairs (an unknown
\* variant of a known module_type, an unknown module_type); an unknown module_type
\* among two known pairs
ModulesInputs ==
    { << >>,
      << <<"research", "v9">>, <<"plugin", "v1">> >>,
      << <<"plugin", "v1">>, <<"research", "v2">>, <<"input", "v2">> >> }

\* fitness_delta arguments in thousandths: +-1000, the driver's -0.02 and +0.05, 0,
\* and 0.4, large enough for the stored score to tell one learning rate from the next
Deltas == {-1000000, -20, 0, 50, 400, 1000000}

\* files that can be on disk when a process starts: none, a JSON value that is no
\* object, an object without "matrix", and the seed after 500 updates that touched
\* no pair (from there the learning rate is at its floor)
InitFiles ==
    { Missing,
      NonObject,
      Object(FALSE, NoMatrix, TRUE, 3, Never),
      Object(TRUE, SeedAffinity, TRUE, 500, <<0>>) }

NoCall ==
    [op |-> "none", status |-> "none", task_type |-> "", modules |-> << >>,
     fitness_delta |-> 0, loaded |-> Missing, save |-> "not_reached", best |-> << >>]

Call(op, status, tt, modules, fitness_delta, loaded, save, best) ==
    [op |-> op, status |-> status, task_type |-> tt, modules |-> modules,
     fitness_delta |-> fitness_delta, loaded |-> loaded, save |-> save, best |-> best]

----------------------------------------------------------------------------
(* The calls, one at a time *)

Writers == {"a", "b"}

Procs == Writers \cup {"reader"}

Idle == [p \in Procs |-> "idle"]

\* the locals of a process: the arguments, the file contents its load read (raw),
\* the dict load returned (loaded), the dict it is about to save (data), and
\* whether another save had the file open while this one had (overlap)
NoLocal ==
    [task_type |-> "", modules |-> << >>, fitness_delta |-> 0, raw |-> Missing,
     loaded |-> Missing, data |-> Missing, overlap |-> FALSE]

NoLocals == [p \in Procs |-> NoLocal]

\* no pure call under way
NoPure == [fn |-> "none", arg |-> << >>, ret |-> << >>]

Init ==
    /\ file \in InitFiles
    /\ DEFAULT_AFFINITY = SeedAffinity
    /\ clock = 1
    /\ calls = 0
    /\ last = NoCall
    /\ pc = Idle
    /\ local = NoLocals
    /\ pure = NoPure

\* mutant: a load that writes the default state out when it finds no readable file
LoadCreating ==
    /\ last' = Call("load", "ok", "", << >>, 0,
                    load_affinity_matrix(file, DEFAULT_AFFINITY), "not_reached", << >>)
    /\ file' = IF LoadAliasesDefault(file)
               THEN Stamped(DefaultState(DEFAULT_AFFINITY), clock)
               ELSE file
    /\ UNCHANGED <<DEFAULT_AFFINITY, clock, calls, pc, local, pure>>

\* load_affinity_matrix()
Load ==
    /\ last' = Call("load", "ok", "", << >>, 0,
                    load_affinity_matrix(file, DEFAULT_AFFINITY), "not_reached", << >>)
    /\ UNCHANGED <<file, DEFAULT_AFFINITY, clock, calls, pc, local, pure>>

\* the matrix with the winners of best raised by 0.01 for tt, from entry k on
RECURSIVE Reinforced(_, _, _, _)
Reinforced(matrix, best, k, tt) ==
    IF k > Len(best) THEN matrix
    ELSE Reinforced(MatrixSet(matrix, best[k].module_type, best[k].variant, tt,
                              Clamp(<<best[k].score + 10, 1>>)[1]), best, k + 1, tt)

\* mutant: get_best_modules rewards the variants it recommends and saves
BestForReinforcing(tt) ==
    LET data == load_affinity_matrix(file, DEFAULT_AFFINITY)
    IN  /\ last' = IF data.kind # "object" \/ ~data.hasMatrix
                   THEN Call("best_for", "raised", tt, << >>, 0, data,
                             "not_reached", << >>)
                   ELSE Call("best_for", "ok", tt, << >>, 0, data,
                             "not_reached", get_best_modules(tt, data.matrix))
        /\ file' = IF data.kind # "object" \/ ~data.hasMatrix THEN file
                   ELSE [data EXCEPT !.matrix =
                            Reinforced(data.matrix, get_best_modules(tt, data.matrix),
                                       1, tt)]
        /\ UNCHANGED <<DEFAULT_AFFINITY, clock, calls, pc, local, pure>>

\* the matrix with scores.setdefault(tt, 0.5) done on every variant
WithDefaults(matrix, tt) ==
    [i \in 1..Len(matrix) |->
        M(matrix[i].module_type,
          [j \in 1..Len(matrix[i].variants) |->
              V(matrix[i].variants[j].variant,
                IF tt \in DOMAIN matrix[i].variants[j].scores
                THEN matrix[i].variants[j].scores
                ELSE ScoreSet(matrix[i].variants[j].scores, tt, Neutral))])]

\* mutant: scores.setdefault(task_type, 0.5) instead of scores.get(task_type, 0.5)
BestForSetDefault(tt) ==
    LET data == load_affinity_matrix(file, DEFAULT_AFFINITY)
    IN  /\ last' = IF data.kind # "object" \/ ~data.hasMatrix
                   THEN Call("best_for", "raised", tt, << >>, 0, data,
                             "not_reached", << >>)
                   ELSE Call("best_for", "ok", tt, << >>, 0, data,
                             "not_reached", get_best_modules(tt, data.matrix))
        /\ DEFAULT_AFFINITY' = IF LoadAliasesDefault(file)
                               THEN WithDefaults(DEFAULT_AFFINITY, tt)
                               ELSE DEFAULT_AFFINITY
        /\ UNCHANGED <<file, clock, calls, pc, local, pure>>

\* get_best_modules(task_type): data["matrix"] raises as in update_affinity
BestFor(tt) ==
    LET data == load_affinity_matrix(file, DEFAULT_AFFINITY)
    IN  /\ last' = IF data.kind # "object" \/ ~data.hasMatrix
                   THEN Call("best_for", "raised", tt, << >>, 0, data,
                             "not_reached", << >>)
                   ELSE Call("best_for", "ok", tt, << >>, 0, data,
                             "not_reached", get_best_modules(tt, data.matrix))
        /\ UNCHANGED <<file, DEFAULT_AFFINITY, clock, calls, pc, local, pure>>

\* the ways open() and the write of save_affinity_matrix can end: "ok";
\* "open_failed" (open raises, the file is untouched); "write_failed" (open
\* truncated the file, then the write or the flush on close raises)
SaveOutcomes == {"ok", "open_failed", "write_failed"}

\* save_affinity_matrix(data): the file it leaves
save_affinity_matrix(f, data, now, how) ==
    CASE how = "ok" -> json_load(json_dump(Stamped(data, now)))
      [] how = "open_failed" -> f
      [] how = "write_failed" -> Unparsable

\* mutant: the write wrapped in the bare try/except of the read path
SaveStatusSwallowed(how) == "ok"

\* what the caller of save_affinity_matrix sees: nothing is caught on the way up
SaveStatus(how) == IF how = "ok" THEN "ok" ELSE "raised"

\* the body of update_affinity(skill, task_type, modules, fitness_delta): load,
\* adjust, save
UpdateEffect(tt, modules, fitness_delta, how) ==
    LET data == load_affinity_matrix(file, DEFAULT_AFFINITY)
    IN  IF UpdateRaisesOnLoad(data)
        THEN /\ how = "ok"
             /\ last' = Call("update", "raised", tt, modules, fitness_delta,
                             data, "not_reached", << >>)
             /\ UNCHANGED <<file, DEFAULT_AFFINITY, clock>>
        ELSE \E d \in UpdatedData(data, tt, modules, fitness_delta) :
             /\ DEFAULT_AFFINITY' = IF LoadAliasesDefault(file) THEN d.matrix
                                    ELSE DEFAULT_AFFINITY
             /\ file' = save_affinity_matrix(file, d, clock, how)
             /\ clock' = clock + 1
             /\ last' = Call("update", SaveStatus(how), tt, modules,
                             fitness_delta, data, how, << >>)

\* update_affinity(skill, task_type, modules, fitness_delta), one of at most
\* MaxCalls calls
update_affinity(tt, modules, fitness_delta, how) ==
    /\ calls < MaxCalls
    /\ calls' = calls + 1
    /\ UpdateEffect(tt, modules, fitness_delta, how)
    /\ UNCHANGED <<pc, local, pure>>

\* the process ends and a new one imports the module: DEFAULT_AFFINITY is the literal
Restart ==
    /\ DEFAULT_AFFINITY # SeedAffinity
    /\ DEFAULT_AFFINITY' = SeedAffinity
    /\ UNCHANGED <<file, clock, calls, last, pc, local, pure>>

Update ==
    \E tt \in UpdTaskTypes, modules \in ModulesInputs, fitness_delta \in Deltas,
       how \in SaveOutcomes : update_affinity(tt, modules, fitness_delta, how)

Next ==
    \/ Update
    \/ Restart

Spec == Init /\ [][Next]_vars

\* an empty scores dict
NoScores == [tt \in {} |-> 0]

\* matrix arguments of get_best_modules(task_type, matrix): the seed, and a matrix
\* with equal scores, absent entries and a module_type without variants
BestMatrices ==
    { SeedAffinity,
      << M("research",
           << V("v1", [testing |-> 600]),
              V("v2", [testing |-> 700]),
              V("v3", [testing |-> 700]) >>),
         M("draft", << >>),
         M("input",
           << V("v1", NoScores),
              V("v2", [testing |-> 500, planning |-> 900]) >>) >> }

\* get_best_modules(task_type, matrix) with the matrix given by the caller
BestForMatrix(tt, matrix) ==
    /\ last' = Call("best_for", "ok", tt, << >>, 0,
                    Object(TRUE, matrix, FALSE, 0, Never), "not_reached",
                    get_best_modules(tt, matrix))
    /\ UNCHANGED <<file, DEFAULT_AFFINITY, clock, calls, pc, local, pure>>

\* fitness_delta arguments of the mixed sequences: the driver's -0.02 and +0.05
OpsDeltas == {-20, 50}

UpdateOps ==
    \E tt \in UpdTaskTypes, modules \in ModulesInputs, fitness_delta \in OpsDeltas,
       how \in SaveOutcomes : update_affinity(tt, modules, fitness_delta, how)

\* save_affinity_matrix(load_affinity_matrix()): a value that is no dict makes
\* data["last_updated"] = ... raise before the file is opened
RoundTrip ==
    \E how \in SaveOutcomes :
       LET data == load_affinity_matrix(file, DEFAULT_AFFINITY)
       IN  /\ calls < MaxCalls
           /\ calls' = calls + 1
           /\ IF data.kind # "object"
              THEN /\ how = "ok"
                   /\ last' = Call("round_trip", "raised", "", << >>, 0, data,
                                   "not_reached", << >>)
                   /\ UNCHANGED <<file, clock>>
              ELSE /\ file' = save_affinity_matrix(file, data, clock, how)
                   /\ clock' = clock + 1
                   /\ last' = Call("round_trip", SaveStatus(how), "", << >>, 0,
                                   data, how, << >>)
           /\ UNCHANGED <<DEFAULT_AFFINITY, pc, local, pure>>

\* load, best_for, update and round trip in any order, one at a time
NextOps ==
    \/ Load
    \/ RoundTrip
    \/ \E tt \in UpdTaskTypes : BestFor(tt)
    \/ \E tt \in UpdTaskTypes, matrix \in BestMatrices : BestForMatrix(tt, matrix)
    \/ UpdateOps
    \/ Restart

SpecOps == Init /\ [][NextOps]_vars

----------------------------------------------------------------------------
(* Two update_affinity calls and a load in separate processes, interleaved at *)
(* their file operations.  Each process is fresh: its DEFAULT_AFFINITY is the *)
(* literal, and it makes one call.                                           *)

\* arguments of the concurrent calls
ConcModules == << <<"plugin", "v1">>, <<"research", "v2">>, <<"input", "v2">> >>

\* lines 126-141: load, then the in-memory update; data["matrix"] may raise
CLoad(w, tt, fitness_delta) ==
    LET data == load_affinity_matrix(file, SeedAffinity)
    IN  /\ pc[w] = "idle"
        /\ IF UpdateRaisesOnLoad(data)
           THEN /\ pc' = [pc EXCEPT ![w] = "raised"]
                /\ local' = [local EXCEPT ![w] =
                      [task_type |-> tt, modules |-> ConcModules,
                       fitness_delta |-> fitness_delta, raw |-> file,
                       loaded |-> data, data |-> data, overlap |-> FALSE]]
           ELSE \E d \in UpdatedData(data, tt, ConcModules, fitness_delta) :
                /\ pc' = [pc EXCEPT ![w] = "loaded"]
                /\ local' = [local EXCEPT ![w] =
                      [task_type |-> tt, modules |-> ConcModules,
                       fitness_delta |-> fitness_delta, raw |-> file,
                       loaded |-> data, data |-> d, overlap |-> FALSE]]
        /\ UNCHANGED <<file, DEFAULT_AFFINITY, clock, calls, last, pure>>

\* lines 83-84: the stamp, then open(AFFINITY_FILE, 'w') truncates the file
COpen(w) ==
    /\ pc[w] = "loaded"
    /\ pc' = [pc EXCEPT ![w] = "writing"]
    /\ file' = Unparsable
    /\ clock' = clock + 1
    /\ local' = [p \in Procs |->
         IF p = w
         THEN [local[p] EXCEPT !.data = Stamped(@, clock),
                               !.overlap = \E o \in Writers \ {w} : pc[o] = "writing"]
         ELSE IF p \in Writers /\ pc[p] = "writing"
         THEN [local[p] EXCEPT !.overlap = TRUE]
         ELSE local[p]]
    /\ UNCHANGED <<DEFAULT_AFFINITY, calls, last, pure>>

\* what json.dump and close leave: the text of data, written from offset 0; when
\* another save had the file open meanwhile, the tail of its longer text may remain
WrittenFiles(l) == IF l.overlap THEN {l.data, Unparsable} ELSE {l.data}

\* line 85 and the close of the with block
CWrite(w) ==
    /\ pc[w] = "writing"
    /\ pc' = [pc EXCEPT ![w] = "done"]
    /\ file' \in WrittenFiles(local[w])
    /\ UNCHANGED <<DEFAULT_AFFINITY, clock, calls, last, local, pure>>

\* the process is killed between open() and the write
CCrash(w) ==
    /\ pc[w] = "writing"
    /\ pc' = [pc EXCEPT ![w] = "crashed"]
    /\ UNCHANGED <<file, DEFAULT_AFFINITY, clock, calls, last, local, pure>>

\* load_affinity_matrix() in a third process
CRead ==
    /\ pc["reader"] = "idle"
    /\ pc' = [pc EXCEPT !["reader"] = "read"]
    /\ local' = [local EXCEPT !["reader"] =
          [NoLocal EXCEPT !.raw = file,
                          !.loaded = load_affinity_matrix(file, SeedAffinity)]]
    /\ UNCHANGED <<file, DEFAULT_AFFINITY, clock, calls, last, pure>>

NextConc ==
    \/ \E w \in Writers, tt \in UpdTaskTypes, fitness_delta \in OpsDeltas :
          CLoad(w, tt, fitness_delta)
    \/ \E w \in Writers : COpen(w)
    \/ \E w \in Writers : CWrite(w)
    \/ \E w \in Writers : CCrash(w)
    \/ CRead

SpecConc == Init /\ [][NextConc]_vars

----------------------------------------------------------------------------
(* The learning rate along a growing observations counter: line 131 evaluated *)
(* at 0, 1, 2, ... as successive update_affinity calls would load them         *)

RateOf(n) == [fn |-> "rate", arg |-> n, ret |-> LearningRate(n)]

InitRate ==
    /\ file = Missing
    /\ DEFAULT_AFFINITY = SeedAffinity
    /\ clock = 1
    /\ calls = 0
    /\ last = NoCall
    /\ pc = Idle
    /\ local = NoLocals
    /\ pure = RateOf(0)

\* the next call loads a counter one higher
RateStep ==
    /\ pure.arg < MaxObs
    /\ pure' = RateOf(pure.arg + 1)
    /\ UNCHANGED <<file, DEFAULT_AFFINITY, clock, calls, last, pc, local>>

NextRate == RateStep

SpecRate == InitRate /\ [][NextRate]_vars

----------------------------------------------------------------------------
(* One adjustment of update_affinity as a function of the counter it loaded, *)
(* the current score and fitness_delta (lines 131 to 139)                    *)

\* current scores strictly inside (0.1, 0.99): next to the bounds, the neutral
\* default and a seed score
AdjustScores == {101, 500, 720, 989}

\* fitness_delta: the driver's -0.02 and +0.05, the smallest deltas of three
\* decimals, and 0.4
AdjustDeltas == {-20, -1, 1, 50, 400}

InitAdjust ==
    /\ file = Missing
    /\ DEFAULT_AFFINITY = SeedAffinity
    /\ clock = 1
    /\ calls = 0
    /\ last = NoCall
    /\ pc = Idle
    /\ local = NoLocals
    /\ pure \in { [fn |-> "adjust",
                   arg |-> [observations |-> n, current |-> c, fitness_delta |-> d],
                   ret |-> {}] :
                  n \in 0..MaxObs, c \in AdjustScores, d \in AdjustDeltas }

\* lines 131 to 139 for one known pair: the scores that can be stored
Adjust ==
    /\ pure.fn = "adjust"
    /\ pure.ret = {}
    /\ pure' = [pure EXCEPT !.ret = NewScores(pure.arg.current, pure.arg.fitness_delta,
                                              LearningRate(pure.arg.observations))]
    /\ UNCHANGED <<file, DEFAULT_AFFINITY, clock, calls, last, pc, local>>

NextAdjust == Adjust

SpecAdjust == InitAdjust /\ [][NextAdjust]_vars

----------------------------------------------------------------------------
(* classify_task.  A str is the sequence of its characters. *)

TASK_PATTERNS ==
    << [task_type |-> "planning",
        keywords |->
          << <<"p", "l", "a", "n">>,
             <<"d", "e", "s", "i", "g", "n">>,
             <<"a", "r", "c", "h", "i", "t", "e", "c", "t">>,
             <<"i", "m", "p", "l", "e", "m", "e", "n", "t">>,
             <<"f", "e", "a", "t", "u", "r", "e">>,
             <<"r", "o", "a", "d", "m", "a", "p">>,
             <<"s", "t", "r", "a", "t", "e", "g", "y">> >>],
       [task_type |-> "debugging",
        keywords |->
          << <<"f", "i", "x">>,
             <<"b", "u", "g">>,
             <<"e", "r", "r", "o", "r">>,
             <<"i", "s", "s", "u", "e">>,
             <<"b", "r", "o", "k", "e", "n">>,
             <<"f", "a", "i", "l", "i", "n", "g">>,
             <<"c", "r", "a", "s", "h">>,
             <<"d", "e", "b", "u", "g">> >>],
       [task_type |-> "refactoring",
        keywords |->
          << <<"r", "e", "f", "a", "c", "t", "o", "r">>,
             <<"c", "l", "e", "a", "n">>,
             <<"i", "m", "p", "r", "o", "v", "e">>,
             <<"o", "p", "t", "i", "m", "i", "z", "e">>,
             <<"r", "e", "s", "t", "r", "u", "c", "t", "u", "r", "e">>,
             <<"m", "o", "d", "e", "r", "n", "i", "z", "e">> >>],
       [task_type |-> "documentation",
        keywords |->
          << <<"d", "o", "c">>,
             <<"r", "e", "a", "d", "m", "e">>,
             <<"c", "o", "m", "m", "e", "n", "t">>,
             <<"e", "x", "p", "l", "a", "i", "n">>,
             <<"d", "o", "c", "u", "m", "e", "n", "t">> >>],
       [task_type |-> "testing",
        keywords |->
          << <<"t", "e", "s", "t">>,
             <<"s", "p", "e", "c">>,
             <<"c", "o", "v", "e", "r", "a", "g", "e">>,
             <<"a", "s", "s", "e", "r", "t">>,
             <<"m", "o", "c", "k">>,
             <<"e", "2", "e">> >>],
       [task_type |-> "review",
        keywords |->
          << <<"r", "e", "v", "i", "e", "w">>,
             <<"a", "u", "d", "i", "t">>,
             <<"c", "h", "e", "c", "k">>,
             <<"a", "n", "a", "l", "y", "z", "e">>,
             <<"a", "s", "s", "e", "s", "s">> >>],
       [task_type |-> "generation",
        keywords |->
          << <<"c", "r", "e", "a", "t", "e">>,
             <<"g", "e", "n", "e", "r", "a", "t", "e">>,
             <<"s", "c", "a", "f", "f", "o", "l", "d">>,
             <<"n", "e", "w">>,
             <<"a", "d", "d">>,
             <<"b", "u", "i", "l", "d">> >>] >>

\* str.lower() on the letters A-Z
Lower(c) ==
    CASE c = "A" -> "a"
      [] c = "B" -> "b"
      [] c = "C" -> "c"
      [] c = "D" -> "d"
      [] c = "E" -> "e"
      [] c = "F" -> "f"
      [] c = "G" -> "g"
      [] c = "H" -> "h"
      [] c = "I" -> "i"
      [] c = "J" -> "j"
      [] c = "K" -> "k"
      [] c = "L" -> "l"
      [] c = "M" -> "m"
      [] c = "N" -> "n"
      [] c = "O" -> "o"
      [] c = "P" -> "p"
      [] c = "Q" -> "q"
      [] c = "R" -> "r"
      [] c = "S" -> "s"
      [] c = "T" -> "t"
      [] c = "U" -> "u"
      [] c = "V" -> "v"
      [] c = "W" -> "w"
      [] c = "X" -> "x"
      [] c = "Y" -> "y"
      [] c = "Z" -> "z"
      [] OTHER -> c

\* context.lower()
LowerCase(text) == [i \in 1..Len(text) |-> Lower(text[i])]

\* kw in context_lower
Contains(text, kw) ==
    \E i \in 1..(Len(text) - Len(kw) + 1) : SubSeq(text, i, i + Len(kw) - 1) = kw

\* sum(1 for kw in keywords if kw in context_lower)
KeywordScore(keywords, text) ==
    Cardinality({ k \in 1..Len(keywords) : Contains(text, keywords[k]) })

\* mutant: if score >= 0, every task_type enters scores
RECURSIVE ScoresFromAll(_, _)
ScoresFromAll(i, text) ==
    IF i > Len(TASK_PATTERNS) THEN << >>
    ELSE <<[task_type |-> TASK_PATTERNS[i].task_type,
            score |-> KeywordScore(TASK_PATTERNS[i].keywords, text)]>>
         \o ScoresFromAll(i + 1, text)

\* the loop of lines 93-96 from position i on: scores.items(), in insertion order
RECURSIVE ScoresFrom(_, _)
ScoresFrom(i, text) ==
    IF i > Len(TASK_PATTERNS) THEN << >>
    ELSE LET score == KeywordScore(TASK_PATTERNS[i].keywords, text)
         IN  IF score > 0
             THEN <<[task_type |-> TASK_PATTERNS[i].task_type, score |-> score]>>
                  \o ScoresFrom(i + 1, text)
             ELSE ScoresFrom(i + 1, text)

\* mutant: the last of several equal maxima
RECURSIVE MaxLast(_, _, _)
MaxLast(items, i, best) ==
    IF i > Len(items) THEN best
    ELSE IF items[i].score >= best.score THEN MaxLast(items, i + 1, items[i])
    ELSE MaxLast(items, i + 1, best)

\* max(scores.items(), key=lambda x: x[1]) from position i on: the first maximum
RECURSIVE MaxFirst(_, _, _)
MaxFirst(items, i, best) ==
    IF i > Len(items) THEN best
    ELSE IF items[i].score > best.score THEN MaxFirst(items, i + 1, items[i])
    ELSE MaxFirst(items, i + 1, best)

\* mutant: the first task_type of the table as the default
FallbackFirst == "planning"

\* return "generation"  # Default
Fallback == "generation"

classify_task(context) ==
    LET scores == ScoresFrom(1, LowerCase(context))
    IN  IF scores # << >> THEN MaxFirst(scores, 2, scores[1]).task_type
        ELSE Fallback

\* words of the classified texts: keywords of several task types, a capitalised
\* one, a word holding two keywords of one type, a keyword inside a longer word,
\* and a word without any keyword
Vocabulary ==
    { <<"f", "i", "x">>,
      <<"b", "u", "g">>,
      <<"p", "l", "a", "n">>,
      <<"T", "e", "s", "t">>,
      <<"d", "o", "c", "u", "m", "e", "n", "t">>,
      <<"n", "e", "w">>,
      <<"l", "o", "r", "e", "m">>,
      <<"r", "e", "d", "e", "s", "i", "g", "n">> }

\* the texts of the scenarios
FixTheLoginBug ==
    <<"f", "i", "x", " ", "t", "h", "e", " ", "l", "o", "g", "i", "n", " ", "b", "u", "g">>

GenerateANewComponent ==
    <<"g", "e", "n", "e", "r", "a", "t", "e", " ", "a", " ", "n", "e", "w", " ",
      "c", "o", "m", "p", "o", "n", "e", "n", "t">>

LoremIpsum ==
    <<"l", "o", "r", "e", "m", " ", "i", "p", "s", "u", "m">>

\* the words joined by single spaces
RECURSIVE Join(_)
Join(words) ==
    IF words = << >> THEN << >>
    ELSE IF Len(words) = 1 THEN words[1]
    ELSE words[1] \o <<" ">> \o Join(Tail(words))

\* the empty text, every text of at most MaxWords words, and the scenarios
Texts ==
    { Join(ws) : ws \in UNION { [1..n -> Vocabulary] : n \in 0..MaxWords } }
      \cup {FixTheLoginBug, GenerateANewComponent, LoremIpsum}

InitClassify ==
    /\ file = Missing
    /\ DEFAULT_AFFINITY = SeedAffinity
    /\ clock = 1
    /\ calls = 0
    /\ last = NoCall
    /\ pc = Idle
    /\ local = NoLocals
    /\ pure \in { [fn |-> "classify", arg |-> text, ret |-> ""] : text \in Texts }

\* classify_task(context)
Classify ==
    /\ pure.fn = "classify"
    /\ pure.ret = ""
    /\ pure' = [pure EXCEPT !.ret = classify_task(pure.arg)]
    /\ UNCHANGED <<file, DEFAULT_AFFINITY, clock, calls, last, pc, local>>

NextClassify == Classify

SpecClassify == InitClassify /\ [][NextClassify]_vars

----------------------------------------------------------------------------
(* One process that shows, suggests, loads, asks for the best modules and *)
(* updates, one call at a time                                            *)

\* the marker print_matrix puts before a score
Marker(score) ==
    IF score >= 800 THEN "excellent"
    ELSE IF score >= 600 THEN "good"
    ELSE IF score >= 400 THEN "fair"
    ELSE "blank"

\* the rows print_matrix prints: per module_type and variant, for each task type
\* of TASK_PATTERNS the score read with the 0.5 default, and its marker
ShowRows(matrix) ==
    [i \in 1..Len(matrix) |->
        [j \in 1..Len(matrix[i].variants) |->
            [k \in 1..Len(TASK_PATTERNS) |->
                LET score == ScoreGet(matrix[i].variants[j].scores,
                                      TASK_PATTERNS[k].task_type)
                IN  [score |-> score, marker |-> Marker(score)]]]]

\* print_matrix(): data["matrix"] raises on a value without that key
Show ==
    LET data == load_affinity_matrix(file, DEFAULT_AFFINITY)
    IN  /\ last' = IF data.kind # "object" \/ ~data.hasMatrix
                   THEN Call("show", "raised", "", << >>, 0, data, "not_reached", << >>)
                   ELSE Call("show", "ok", "", << >>, 0, data, "not_reached",
                             ShowRows(data.matrix))
        /\ UNCHANGED <<file, DEFAULT_AFFINITY, clock, calls, pc, local, pure>>

\* mutant: the entry goes before the entries of equal score
InsertBeforeEqual(sorted, entry) ==
    LET n == Cardinality({ k \in 1..Len(sorted) : sorted[k].score > entry.score })
    IN  SubSeq(sorted, 1, n) \o <<entry>> \o SubSeq(sorted, n + 1, Len(sorted))

\* one entry put into a list sorted by descending score, behind the entries of
\* equal score: sorted(..., reverse=True) is stable
InsertDescending(sorted, entry) ==
    LET n == Cardinality({ k \in 1..Len(sorted) : sorted[k].score >= entry.score })
    IN  SubSeq(sorted, 1, n) \o <<entry>> \o SubSeq(sorted, n + 1, Len(sorted))

\* sorted(best.items(), key=lambda x: x[1]["score"], reverse=True), from entry i on
RECURSIVE SortedDescending(_, _, _)
SortedDescending(best, i, sorted) ==
    IF i > Len(best) THEN sorted
    ELSE SortedDescending(best, i + 1, InsertDescending(sorted, best[i]))

\* the task contexts given to print_suggestion
SuggestTexts == {FixTheLoginBug, GenerateANewComponent, LoremIpsum}

\* classify_task of each of them
SuggestTypes == [task_context \in SuggestTexts |-> classify_task(task_context)]

\* print_suggestion(task_context): the lines under RECOMMENDED MODULES
Suggest(task_context) ==
    LET task_type == SuggestTypes[task_context]
        data == load_affinity_matrix(file, DEFAULT_AFFINITY)
    IN  /\ last' = IF data.kind # "object" \/ ~data.hasMatrix
                   THEN Call("suggest", "raised", task_type, << >>, 0, data,
                             "not_reached", << >>)
                   ELSE Call("suggest", "ok", task_type, << >>, 0, data,
                             "not_reached",
                             SortedDescending(get_best_modules(task_type, data.matrix),
                                              1, << >>))
        /\ UNCHANGED <<file, DEFAULT_AFFINITY, clock, calls, pc, local, pure>>

NextReads ==
    \/ Load
    \/ Show
    \/ \E tt \in UpdTaskTypes : BestFor(tt)
    \/ \E task_context \in SuggestTexts : Suggest(task_context)
    \/ UpdateOps

SpecReads == Init /\ [][NextReads]_vars

----------------------------------------------------------------------------
(* learn_from_telemetry: one run over the session files, event by event *)

\* an event of a session: "valid" has a skill with a definition file and a
\* context; "no_skill", "empty_context" and "no_skill_file" fail one of the tests
\* of lines 236 and 242; "bad" is a value that is no dict (event.get raises)
Event(kind, context, completed) ==
    [kind |-> kind, context |-> context, completed |-> completed]

Valid(context, completed) == Event("valid", context, completed)

NoSkill == Event("no_skill", FixTheLoginBug, TRUE)

EmptyContext == Event("empty_context", << >>, TRUE)

NoSkillFile == Event("no_skill_file", FixTheLoginBug, TRUE)

Bad == Event("bad", << >>, FALSE)

\* a session file: its events, or a text json.load cannot parse
Session(events) == [kind |-> "ok", events |-> events]

UnparsableSession == [kind |-> "unparsable", events |-> << >>]

\* the runs: whether TELEMETRY_DIR/sessions exists, and the session files in the
\* order glob yields them
Batches ==
    { [dir |-> FALSE, sessions |-> << >>],
      [dir |-> TRUE, sessions |-> << >>],
      [dir |-> TRUE,
       sessions |-> << Session(<<Bad, Valid(FixTheLoginBug, TRUE)>>),
                       Session(<<Valid(GenerateANewComponent, FALSE)>>) >>],
      [dir |-> TRUE,
       sessions |-> << Session(<<NoSkill, EmptyContext, NoSkillFile,
                                 Valid(LoremIpsum, TRUE)>>) >>],
      [dir |-> TRUE,
       sessions |-> << Session(<<Valid(LoremIpsum, TRUE), Bad>>),
                       Session(<<Valid(GenerateANewComponent, TRUE)>>) >>],
      [dir |-> TRUE,
       sessions |-> << UnparsableSession,
                       Session(<<Valid(FixTheLoginBug, FALSE),
                                 Valid(FixTheLoginBug, TRUE)>>) >>] }

\* skill_def.get("modules", {}) of the skill of the valid events
LearnModules == <<<<"research", "v2">>, <<"plugin", "v1">>>>

\* fitness_delta = 0.05 if completed else -0.02
FitnessDelta(completed) == IF completed THEN 50 ELSE -20

\* the driver at the start: before session 1, event 1; updates = 0; no
\* update_affinity call made or returned; the counter a load reads at the start
LearnStart(observations) ==
    [session |-> 1, event |-> 1, updates |-> 0, attempted |-> {}, returned |-> 0,
     start |-> observations, reported |-> << >>, finished |-> FALSE]

InitLearn ==
    /\ file \in InitFiles
    /\ DEFAULT_AFFINITY = SeedAffinity
    /\ clock = 1
    /\ calls = 0
    /\ last = NoCall
    /\ pc = Idle
    /\ local = NoLocals
    /\ \E batch \in Batches :
          pure = [fn |-> "learn", arg |-> batch,
                  ret |-> LearnStart(ObservationsGet(
                              load_affinity_matrix(file, SeedAffinity)))]

\* the loop is at an event of a parsed session file
AtEvent ==
    /\ pure.fn = "learn"
    /\ pure.arg.dir
    /\ ~pure.ret.finished
    /\ pure.ret.session <= Len(pure.arg.sessions)
    /\ pure.arg.sessions[pure.ret.session].kind = "ok"
    /\ pure.ret.event <= Len(pure.arg.sessions[pure.ret.session].events)

\* the driver after `continue` in the except clause, or at the end of a file
NextSession == [pure.ret EXCEPT !.session = @ + 1, !.event = 1]

\* classify_task of the contexts of the events
LearnTypes ==
    [context \in {FixTheLoginBug, GenerateANewComponent, LoremIpsum, << >>} |->
        classify_task(context)]

\* lines 221 to 223: no sessions directory, nothing is processed or reported
LearnNoSessions ==
    /\ pure.fn = "learn"
    /\ ~pure.arg.dir
    /\ ~pure.ret.finished
    /\ pure' = [pure EXCEPT !.ret.finished = TRUE]
    /\ UNCHANGED <<file, DEFAULT_AFFINITY, clock, calls, last, pc, local>>

\* the next session file: json.load raises and the except clause continues, or
\* the events of the file before are used up
LearnNextSession ==
    /\ pure.fn = "learn"
    /\ pure.arg.dir
    /\ ~pure.ret.finished
    /\ pure.ret.session <= Len(pure.arg.sessions)
    /\ \/ pure.arg.sessions[pure.ret.session].kind = "unparsable"
       \/ pure.ret.event > Len(pure.arg.sessions[pure.ret.session].events)
    /\ pure' = [pure EXCEPT !.ret = NextSession]
    /\ UNCHANGED <<file, DEFAULT_AFFINITY, clock, calls, last, pc, local>>

\* an event that passes no update on: a test of line 236 or 242 fails and the
\* loop goes to the next event, or event.get raises and the except clause leaves
\* the session file
LearnSkipEvent ==
    /\ AtEvent
    /\ LET e == pure.arg.sessions[pure.ret.session].events[pure.ret.event]
       IN  /\ e.kind # "valid"
           /\ pure' = [pure EXCEPT !.ret = IF e.kind = "bad" THEN NextSession
                                            ELSE [@ EXCEPT !.event = @ + 1]]
    /\ UNCHANGED <<file, DEFAULT_AFFINITY, clock, calls, last, pc, local>>

\* a valid event: update_affinity is called; updates += 1 when it returns, the
\* except clause leaves the session file when it raises
LearnEvent ==
    /\ AtEvent
    /\ LET e == pure.arg.sessions[pure.ret.session].events[pure.ret.event]
           at == <<pure.ret.session, pure.ret.event>>
       IN  /\ e.kind = "valid"
           /\ \E how \in SaveOutcomes :
                 UpdateEffect(LearnTypes[e.context], LearnModules,
                              FitnessDelta(e.completed), how)
           /\ pure' = [pure EXCEPT !.ret =
                         IF last'.status = "ok"
                         THEN [@ EXCEPT !.event = @ + 1, !.updates = @ + 1,
                                        !.attempted = @ \cup {at},
                                        !.returned = @ + 1]
                         ELSE [NextSession EXCEPT !.attempted = @ \cup {at}]]
    /\ UNCHANGED <<calls, pc, local>>

\* line 256: print(f"Applied {updates} observations to affinity matrix.")
LearnReport ==
    /\ pure.fn = "learn"
    /\ pure.arg.dir
    /\ ~pure.ret.finished
    /\ pure.ret.session > Len(pure.arg.sessions)
    /\ pure' = [pure EXCEPT !.ret.reported = <<pure.ret.updates>>,
                           !.ret.finished = TRUE]
    /\ UNCHANGED <<file, DEFAULT_AFFINITY, clock, calls, last, pc, local>>

NextLearn ==
    \/ LearnNoSessions
    \/ LearnNextSession
    \/ LearnSkipEvent
    \/ LearnEvent
    \/ LearnReport

SpecLearn == InitLearn /\ [][NextLearn]_vars

----------------------------------------------------------------------------
(* Properties of update_affinity, calls made one at a time *)

HasMatrix(f) == f.kind = "object" /\ f.hasMatrix

\* the last call was an update_affinity that returned normally
Updated == last.op = "update" /\ last.status = "ok"

\* the pairs of the last call's modules that the matrix it loaded knows
TouchedPairs ==
    { last.modules[i] : i \in { k \in 1..Len(last.modules) :
        Known(last.loaded.matrix, last.modules[k][1], last.modules[k][2]) } }

UnknownPairs ==
    { last.modules[i] : i \in { k \in 1..Len(last.modules) :
        ~Known(last.loaded.matrix, last.modules[k][1], last.modules[k][2]) } }

InRange(matrix) == \A s \in StoredScores(matrix) : 100 <= s /\ s <= 990

\* C1: from the seed, after any sequence of update_affinity calls (deltas of +1000
\* and -1000 among them), every score of the persisted matrix, and of the
\* in-process default it may alias, lies in [0.1, 0.99].
C1_ScoresInRange ==
    /\ HasMatrix(file) => InRange(file.matrix)
    /\ InRange(DEFAULT_AFFINITY)

\* both bounds were hit: +1000 pushed a score to 0.99, -1000 another to 0.1
C1_Witness ==
    /\ Updated
    /\ HasMatrix(file)
    /\ last.fitness_delta \in {-1000000, 1000000}
    /\ 990 \in StoredScores(file.matrix)
    /\ 100 \in StoredScores(file.matrix)

\* C2: an update_affinity call that completes persists observations = the value it
\* loaded + 1, whatever the number of pairs it touched.
C2_ObservationsPlusOne ==
    Updated =>
        /\ file.kind = "object"
        /\ file.hasObs
        /\ file.observations = ObservationsGet(last.loaded) + 1

\* a completed call that touched two known pairs and raised the counter by 1
C2_Witness ==
    /\ Updated
    /\ Cardinality(TouchedPairs) = 2
    /\ file.observations = ObservationsGet(last.loaded) + 1

\* the rate of the claim, from the observations loaded: 0.3 / (1 + n * 0.01) while
\* that is at least 0.05 (n <= 500), else 0.05; as a fraction of integers
ClaimedRate(n) == IF n <= 500 THEN <<30, 100 + n>> ELSE <<1, 20>>

\* n is clamp(current + delta * rate, 0.1, 0.99) rounded to 3 decimals: n is within
\* half a thousandth of the clamped exact value
IsRoundedClamped(n, current, delta, rate) ==
    LET exact == current * rate[2] + delta * rate[1]
        clamped == IF exact > 990 * rate[2] THEN 990 * rate[2]
                   ELSE IF exact < 100 * rate[2] THEN 100 * rate[2]
                   ELSE exact
        diff == n * rate[2] - clamped
    IN  2 * diff <= rate[2] /\ -2 * diff <= rate[2]

\* C3: for a known pair the score stored for task_type is
\* clamp(current + fitness_delta * rate, 0.1, 0.99) rounded to 3 decimals, current
\* being the loaded score or 0.5, rate = max(0.05, 0.3 / (1 + observations * 0.01))
\* from the observations loaded before the increment.
C3_StoredScore ==
    Updated =>
        \A pair \in TouchedPairs :
            /\ last.task_type \in DOMAIN ScoresOf(file.matrix, pair[1], pair[2])
            /\ IsRoundedClamped(
                   ScoresOf(file.matrix, pair[1], pair[2])[last.task_type],
                   IF last.task_type \in
                        DOMAIN ScoresOf(last.loaded.matrix, pair[1], pair[2])
                   THEN ScoresOf(last.loaded.matrix, pair[1], pair[2])[last.task_type]
                   ELSE 500,
                   last.fitness_delta,
                   ClaimedRate(ObservationsGet(last.loaded)))

\* the first update on the seed, delta 0.4, rate 0.3: research/v2 testing 0.60 -> 0.72
C3_Witness ==
    /\ Updated
    /\ ObservationsGet(last.loaded) = 0
    /\ last.fitness_delta = 400
    /\ last.task_type = "testing"
    /\ <<"research", "v2">> \in TouchedPairs
    /\ ScoresOf(last.loaded.matrix, "research", "v2")["testing"] = 600
    /\ ScoresOf(file.matrix, "research", "v2")["testing"] = 720

\* C4: update_affinity with fitness_delta = 0 leaves the score of every touched
\* (module_type, variant, task_type) unchanged and raises observations by 1.
C4_ZeroDelta ==
    (Updated /\ last.fitness_delta = 0) =>
        /\ \A pair \in TouchedPairs :
             ScoreGet(ScoresOf(file.matrix, pair[1], pair[2]), last.task_type)
               = ScoreGet(ScoresOf(last.loaded.matrix, pair[1], pair[2]), last.task_type)
        /\ file.observations = ObservationsGet(last.loaded) + 1

\* a zero-delta call on two known pairs that had no entry for the task type
C4_Witness ==
    /\ Updated
    /\ last.fitness_delta = 0
    /\ Cardinality(TouchedPairs) = 2
    /\ \A pair \in TouchedPairs :
         /\ last.task_type \notin DOMAIN ScoresOf(last.loaded.matrix, pair[1], pair[2])
         /\ ScoresOf(file.matrix, pair[1], pair[2])[last.task_type] = 500
    /\ file.observations = ObservationsGet(last.loaded) + 1

\* the (module_type, variant) keys of a matrix
PairKeys(matrix) ==
    UNION { { <<matrix[i].module_type, matrix[i].variants[j].variant>> :
                j \in 1..Len(matrix[i].variants) } : i \in 1..Len(matrix) }

ModuleKeys(matrix) == { matrix[i].module_type : i \in 1..Len(matrix) }

\* C6: a pair whose module_type or variant is not in the matrix is skipped: no
\* module_type or variant key is created, a call with only such pairs changes no
\* score, the call does not fail on their account (it fails only when the save
\* does), and it still increments observations and persists.
C6_UnknownSkipped ==
    (last.op = "update" /\ HasMatrix(last.loaded) /\ UnknownPairs # {}) =>
        /\ last.save = "ok" => last.status = "ok"
        /\ Updated =>
             /\ HasMatrix(file)
             /\ ModuleKeys(file.matrix) = ModuleKeys(last.loaded.matrix)
             /\ PairKeys(file.matrix) = PairKeys(last.loaded.matrix)
             /\ TouchedPairs = {} => file.matrix = last.loaded.matrix
             /\ file.observations = ObservationsGet(last.loaded) + 1

\* a completed call whose pairs were all unknown: same matrix, counter + 1
C6_Witness ==
    /\ Updated
    /\ Cardinality(UnknownPairs) = 2
    /\ TouchedPairs = {}
    /\ file.matrix = last.loaded.matrix
    /\ file.observations = ObservationsGet(last.loaded) + 1

\* C10: a save that fails makes update_affinity raise; a call that returns
\* normally has written its state (stamped by this call) to the file.
C10_WriteFailureSurfaced ==
    /\ (last.op = "update" /\ last.save \in {"open_failed", "write_failed"})
          => last.status = "raised"
    /\ Updated =>
          /\ file.kind = "object"
          /\ file.last_updated = <<clock - 1>>
          /\ file.observations = ObservationsGet(last.loaded) + 1

\* the write failed after open() truncated the file, and the call raised
C10_Witness ==
    /\ last.op = "update"
    /\ last.save = "write_failed"
    /\ last.status = "raised"
    /\ file = Unparsable

----------------------------------------------------------------------------
(* Properties of mixed sequences of calls *)

\* the observations value of the persisted state, as a load reads it
PersistedObservations ==
    ObservationsGet(load_affinity_matrix(file, DEFAULT_AFFINITY))

\* C5: over load, best_for and update calls made one at a time, the persisted
\* observations value never decreases from one call to the next.
C5_ObservationsNeverDecrease ==
    [][PersistedObservations' >= PersistedObservations]_vars

\* the file does not hold an object with a "matrix" key
NoValidState(f) == f.kind # "object" \/ ~f.hasMatrix

\* C7: load_affinity_matrix never raises, and for a missing, unparsable or
\* schema-violating file it returns the seed default state: a matrix,
\* observations = 0, last_updated absent.
C7_LoadDegradesToSeed ==
    last.op = "load" =>
        /\ last.status = "ok"
        /\ NoValidState(file) =>
              /\ HasMatrix(last.loaded)
              /\ last.loaded.hasObs
              /\ last.loaded.observations = 0
              /\ last.loaded.last_updated = Never

\* the scores of every (module_type, variant, task_type) of a loaded state
TripleScores(data) ==
    IF HasMatrix(data)
    THEN UNION { UNION { { <<data.matrix[i].module_type,
                            data.matrix[i].variants[j].variant, tt,
                            data.matrix[i].variants[j].scores[tt]>> :
                            tt \in DOMAIN data.matrix[i].variants[j].scores } :
                         j \in 1..Len(data.matrix[i].variants) } :
                 i \in 1..Len(data.matrix) }
    ELSE {}

\* C20: save(load()) whose write does not fail changes nothing in the persisted
\* state, as a load reads it, except last_updated: every (module_type, variant,
\* task_type) score and the observations counter are identical before and after.
C20_RoundTripKeepsContent ==
    [][(calls' = calls + 1 /\ last'.op = "round_trip"
        /\ last'.save # "write_failed") =>
          LET before == load_affinity_matrix(file, DEFAULT_AFFINITY)
              after == load_affinity_matrix(file', DEFAULT_AFFINITY')
          IN  /\ last'.loaded = before
              /\ TripleScores(after) = TripleScores(before)
              /\ HasMatrix(after) = HasMatrix(before)
              /\ HasMatrix(after) => after.matrix = before.matrix
              /\ after.hasObs = before.hasObs
              /\ ObservationsGet(after) = ObservationsGet(before)]_vars

\* a round trip rewrote a file with a learned three-decimal score and a nonzero
\* counter; only the stamp differs
C20_Witness ==
    /\ last.op = "round_trip"
    /\ last.status = "ok"
    /\ last.loaded.kind = "object"
    /\ last.loaded.observations > 0
    /\ \E t \in TripleScores(last.loaded) : t[4] % 10 # 0
    /\ file.last_updated # last.loaded.last_updated
    /\ file.matrix = last.loaded.matrix

----------------------------------------------------------------------------
(* Properties of concurrent calls *)

\* C8: a load concurrent with saves reads either no file or the complete text of
\* a state, never a file cut short.
C8_SaveIsAtomic ==
    pc["reader"] = "read" => local["reader"].raw.kind # "unparsable"

BothDone == \A w \in Writers : pc[w] = "done"

\* the calls of the writers loaded the same state: neither saw the other's save
SameLoad == \A w, o \in Writers : local[w].loaded = local[o].loaded

\* C9: when two update_affinity calls that loaded the same state have both
\* completed, the file, if it can be parsed, is the state of one call alone:
\* observations rose by 1 only, and the matrix is that call's matrix.
C9_LostUpdate ==
    (BothDone /\ SameLoad /\ file.kind = "object") =>
        /\ \A w \in Writers : file.observations = ObservationsGet(local[w].loaded) + 1
        /\ \E w \in Writers : file = local[w].data

\* both calls completed, observations rose by 1, and the adjustment of call "a"
\* to research/v2 is absent: the file has the loaded score, not the one "a" computed
C9_Witness ==
    /\ BothDone
    /\ SameLoad
    /\ file.kind = "object"
    /\ file.observations = ObservationsGet(local["a"].loaded) + 1
    /\ local["a"].task_type # local["b"].task_type
    /\ ScoreGet(ScoresOf(file.matrix, "research", "v2"), local["a"].task_type)
         = ScoreGet(ScoresOf(local["a"].loaded.matrix, "research", "v2"),
                    local["a"].task_type)
    /\ ScoreGet(ScoresOf(local["a"].data.matrix, "research", "v2"), local["a"].task_type)
         # ScoreGet(ScoresOf(file.matrix, "research", "v2"), local["a"].task_type)

----------------------------------------------------------------------------
(* Properties of the learning rate *)

\* comparisons of fractions with positive denominators
FracLess(x, y) == x[1] * y[2] < y[1] * x[2]

FracEq(x, y) == x[1] * y[2] = y[1] * x[2]

\* C11: the learning rate never increases as observations grows, is never below
\* 0.05, is 0.3 at observations = 0 and 0.15 at observations = 100.
C11_RateMonotone ==
    /\ [](/\ ~FracLess(pure.ret, <<5, 100>>)
          /\ pure.arg = 0 => FracEq(pure.ret, <<3, 10>>)
          /\ pure.arg = 100 => FracEq(pure.ret, <<15, 100>>))
    /\ [][~FracLess(pure.ret, pure'.ret)]_vars

\* the rate at observations = 100 is 0.15
C11_Witness == pure.fn = "rate" /\ pure.arg = 100 /\ FracEq(pure.ret, <<15, 100>>)

\* C12 as stated: the rate at every count is strictly below the rate one count
\* earlier (hence rate(n) > rate(m) for all n < m).
C12_RateStrictlyDecreasing ==
    [][FracLess(pure'.ret, pure.ret)]_vars

\* C12 amended: the rate strictly decreases up to observations = 500, where it
\* reaches 0.05, and is 0.05 at every count from 500 on.
C12_RateStrictUntilFloor ==
    /\ [](pure.arg >= 500 => FracEq(pure.ret, <<5, 100>>))
    /\ [][pure'.arg <= 500 => FracLess(pure'.ret, pure.ret)]_vars

\* past the floor: at observations = 501 the rate is 0.05, as it was at 500
C12_Witness == pure.fn = "rate" /\ pure.arg = 501 /\ FracEq(pure.ret, <<5, 100>>)

----------------------------------------------------------------------------
(* Properties of get_best_modules *)

\* the last call was a get_best_modules that returned
Recommended == last.op = "best_for" /\ last.status = "ok"

\* the score the claims give a variant for the task type: stored, else 0.5
ScoreFor(v, tt) == IF tt \in DOMAIN v.scores THEN v.scores[tt] ELSE 500

\* the module types of the matrix that have at least one variant
Populated(matrix) == { i \in 1..Len(matrix) : Len(matrix[i].variants) > 0 }

\* the entry of the result for module type mt, as a set (empty when there is none)
EntriesFor(mt) ==
    { k \in 1..Len(last.best) : last.best[k].module_type = mt }

\* C13: for each module_type the result names one of its variants, with that
\* variant's score for the task_type (0.5 when absent), and no variant of the
\* module_type has a higher score.
C13_BestIsMaximal ==
    Recommended =>
        \A i \in Populated(last.loaded.matrix) :
            LET m == last.loaded.matrix[i]
            IN  \E k \in EntriesFor(m.module_type) :
                  /\ \E j \in 1..Len(m.variants) :
                        /\ m.variants[j].variant = last.best[k].variant
                        /\ ScoreFor(m.variants[j], last.task_type) = last.best[k].score
                  /\ \A j \in 1..Len(m.variants) :
                        ScoreFor(m.variants[j], last.task_type) <= last.best[k].score

\* after an update raised research/v2 for "deployment", v2 (not the first variant)
\* is returned with the raised score
C13_Witness ==
    /\ Recommended
    /\ last.task_type = "deployment"
    /\ \E k \in 1..Len(last.best) :
         /\ last.best[k].module_type = "research"
         /\ last.best[k].variant = "v2"
         /\ last.best[k].score > 500

\* C14: when several variants of a module_type share the highest score, the one
\* returned is the first of them in the module_type's order of variants.
C14_FirstOfEqual ==
    Recommended =>
        \A i \in Populated(last.loaded.matrix) :
            LET m == last.loaded.matrix[i]
            IN  \A k \in EntriesFor(m.module_type) :
                  \A j \in 1..Len(m.variants) :
                     ScoreFor(m.variants[j], last.task_type) = last.best[k].score =>
                        VariantIndex(m.variants, last.best[k].variant) <= j

\* v2 and v3 of research both have the highest score 0.7; v2 is returned
C14_Witness ==
    /\ Recommended
    /\ Len(last.loaded.matrix) > 0
    /\ Len(last.loaded.matrix[1].variants) = 3
    /\ ScoreFor(last.loaded.matrix[1].variants[1], last.task_type) = 600
    /\ ScoreFor(last.loaded.matrix[1].variants[2], last.task_type) = 700
    /\ ScoreFor(last.loaded.matrix[1].variants[3], last.task_type) = 700
    /\ Len(last.best) > 0
    /\ last.best[1].variant = "v2"

\* C15: the result has exactly one entry for every module_type that has at least
\* one variant and none for a module_type without variants.
C15_OneEntryPerModule ==
    Recommended =>
        \A i \in 1..Len(last.loaded.matrix) :
            Cardinality(EntriesFor(last.loaded.matrix[i].module_type))
              = IF i \in Populated(last.loaded.matrix) THEN 1 ELSE 0

\* a matrix with a module_type without variants: two entries for three module types
C15_Witness ==
    /\ Recommended
    /\ Len(last.loaded.matrix) = 3
    /\ Cardinality(Populated(last.loaded.matrix)) = 2
    /\ Len(last.best) = 2

SeedTestingBest ==
    { [module_type |-> "validation", variant |-> "v1", score |-> 900],
      [module_type |-> "output", variant |-> "v3", score |-> 850],
      [module_type |-> "structure", variant |-> "v3", score |-> 800],
      [module_type |-> "workflow", variant |-> "v3", score |-> 800],
      [module_type |-> "research", variant |-> "v3", score |-> 700],
      [module_type |-> "input", variant |-> "v1", score |-> 700] }

\* C16: on the seed matrix best_for("testing") is validation v1 0.90, output v3
\* 0.85, structure v3 0.80, workflow v3 0.80, research v3 0.70, input v1 0.70.
C16_SeedTesting ==
    (Recommended /\ last.task_type = "testing" /\ last.loaded.matrix = SeedAffinity) =>
        /\ { last.best[k] : k \in 1..Len(last.best) } = SeedTestingBest
        /\ Len(last.best) = 6

\* best_for("testing") read the seed default because no file exists
C16_Witness ==
    /\ Recommended
    /\ file = Missing
    /\ last.task_type = "testing"
    /\ last.loaded = DefaultState(SeedAffinity)
    /\ { last.best[k] : k \in 1..Len(last.best) } = SeedTestingBest

----------------------------------------------------------------------------
(* Properties of classify_task *)

\* the call has returned
Classified == pure.fn = "classify" /\ pure.ret # ""

\* kw occurs in text at some offset
Occurs(kw, text) ==
    \E off \in 0..(Len(text) - Len(kw)) : \A k \in 1..Len(kw) : text[off + k] = kw[k]

\* the number of keywords of the i-th task type that occur in the lower-cased text
Matches(i, text) ==
    Cardinality({ kw \in { TASK_PATTERNS[i].keywords[k] :
                             k \in 1..Len(TASK_PATTERNS[i].keywords) } :
                  Occurs(kw, [n \in 1..Len(text) |-> Lower(text[n])]) })

NoMatch(text) == \A i \in 1..Len(TASK_PATTERNS) : Matches(i, text) = 0

\* C17: classify_task returns the task_type with the highest number of its
\* keywords occurring in the lower-cased text; among several with the highest
\* nonzero number, the first in the order planning, debugging, refactoring,
\* documentation, testing, review, generation.
C17_HighestCountFirst ==
    /\ [i \in 1..Len(TASK_PATTERNS) |-> TASK_PATTERNS[i].task_type] = TaskTypes
    /\ (Classified /\ ~NoMatch(pure.arg)) =>
          \E i \in 1..Len(TASK_PATTERNS) :
             /\ pure.ret = TASK_PATTERNS[i].task_type
             /\ \A j \in 1..Len(TASK_PATTERNS) :
                   /\ Matches(j, pure.arg) <= Matches(i, pure.arg)
                   /\ j < i => Matches(j, pure.arg) < Matches(i, pure.arg)

\* "Test fix": one keyword each of debugging and testing; debugging comes first
C17_Witness ==
    /\ Classified
    /\ pure.arg = <<"T", "e", "s", "t", " ", "f", "i", "x">>
    /\ Matches(2, pure.arg) = 1
    /\ Matches(5, pure.arg) = 1
    /\ pure.ret = "debugging"

\* C18: for any text, the empty one included, classify_task returns a task type
\* of the enumeration, and "generation" when no keyword occurs in the text.
C18_TotalWithFallback ==
    Classified =>
        /\ pure.ret \in { TaskTypes[i] : i \in 1..Len(TaskTypes) }
        /\ NoMatch(pure.arg) => pure.ret = "generation"

\* the empty text falls back to "generation"
C18_Witness == Classified /\ pure.arg = << >> /\ pure.ret = "generation"

\* C19: "fix the login bug" is "debugging"; "generate a new component" is
\* "generation" because keywords of generation occur in it; "lorem ipsum" has no
\* keyword and is "generation" by the fallback.
C19_Scenarios ==
    Classified =>
        /\ pure.arg = FixTheLoginBug => pure.ret = "debugging"
        /\ pure.arg = GenerateANewComponent =>
              pure.ret = "generation" /\ Matches(7, pure.arg) > 0
        /\ pure.arg = LoremIpsum => pure.ret = "generation" /\ NoMatch(pure.arg)

\* "fix the login bug" was classified: "fix" and "bug" occur, the result is debugging
C19_Witness ==
    /\ Classified
    /\ pure.arg = FixTheLoginBug
    /\ Matches(2, pure.arg) = 2
    /\ pure.ret = "debugging"

----------------------------------------------------------------------------
(* Properties of the reads *)

\* the calls that only read
ReadOps == {"load", "best_for", "show", "suggest"}

\* C21: update_affinity is the only operation that changes the persisted state:
\* a step that changes the file's matrix, observations or last_updated is an
\* update_affinity call, and load, best_for, show and suggest leave the file as
\* it was.
C21_OnlyUpdateWrites ==
    [][/\ file' # file => (last'.op = "update" /\ calls' = calls + 1)
       /\ (last' # last /\ last'.op \in ReadOps) => file' = file]_vars

\* after an update wrote the file, a suggest read it and left it as written
C21_Witness ==
    /\ last.op = "suggest"
    /\ last.status = "ok"
    /\ calls > 0
    /\ file.kind = "object"
    /\ file.observations = 1
    /\ file = last.loaded

ViewKeys ==
    LET data == load_affinity_matrix(file, DEFAULT_AFFINITY)
    IN  IF HasMatrix(data) THEN Keys(data.matrix) ELSE {}

\* C23: a read (load, best_for, show, suggest) writes no explicit entry for an
\* absent (variant, task_type) into the matrix, and an entry that was absent
\* appears only in an update_affinity call that names its variant and task_type.
C23_DefaultNotPersisted ==
    [][/\ (last' # last /\ last'.op \in ReadOps) => ViewKeys' = ViewKeys
       /\ \A key \in ViewKeys' \ ViewKeys :
             /\ last'.op = "update"
             /\ calls' = calls + 1
             /\ key[3] = last'.task_type
             /\ \E k \in 1..Len(last'.modules) :
                   last'.modules[k] = <<key[1], key[2]>>]_vars

\* best_for("deployment") read 0.5 for every variant of the seed file, and the
\* file still has no entry for "deployment"
C23_Witness ==
    /\ last.op = "best_for"
    /\ last.status = "ok"
    /\ last.task_type = "deployment"
    /\ last.best # << >>
    /\ \A k \in 1..Len(last.best) : last.best[k].score = 500
    /\ file.kind = "object"
    /\ \A key \in Keys(file.matrix) : key[3] # "deployment"

\* C26: the suggestion display lists the best_for entries by descending score,
\* and entries of equal score in the order of their module_types in the matrix.
C26_DisplayOrder ==
    (last.op = "suggest" /\ last.status = "ok") =>
        LET best == get_best_modules(last.task_type, last.loaded.matrix)
            shown == last.best
        IN  /\ Len(shown) = Len(best)
            /\ { shown[k] : k \in 1..Len(shown) } = { best[k] : k \in 1..Len(best) }
            /\ \A a, b \in 1..Len(shown) :
                  a < b =>
                     /\ shown[a].score >= shown[b].score
                     /\ shown[a].score = shown[b].score =>
                           ModuleIndex(last.loaded.matrix, shown[a].module_type)
                           < ModuleIndex(last.loaded.matrix, shown[b].module_type)

\* the seed for "generation": output 0.88, then structure and workflow at 0.85 in
\* matrix order, then research and validation at 0.80, then input
C26_Witness ==
    /\ last.op = "suggest"
    /\ last.status = "ok"
    /\ last.task_type = "generation"
    /\ [k \in 1..Len(last.best) |-> last.best[k].module_type]
         = <<"output", "structure", "workflow", "research", "validation", "input">>
    /\ last.best[2].score = last.best[3].score

----------------------------------------------------------------------------
(* Properties of sequences of updates *)

\* the (module_type, variant, task_type) keys of the matrix in the file
PersistedKeys == IF HasMatrix(file) THEN Keys(file.matrix) ELSE {}

\* C24: across any sequence of update_affinity calls the set of (module_type,
\* variant, task_type) keys of the persisted matrix only grows or stays the same.
C24_KeysOnlyGrow == [][PersistedKeys \subseteq PersistedKeys']_vars

\* the keys update_affinity may write: a pair of the call's modules with the
\* call's task_type
Named(key) ==
    /\ key[3] = last.task_type
    /\ \E k \in 1..Len(last.modules) : last.modules[k] = <<key[1], key[2]>>

\* C27: update_affinity changes only the scores at (module_type, variant,
\* task_type) for the pairs of modules and the task_type given: the score of
\* every other variant, module_type and task_type is as it was loaded, no other
\* key is added and none is removed.
C27_OnlyNamedScoresChange ==
    Updated =>
        /\ \A key \in Keys(last.loaded.matrix) :
              /\ key \in Keys(file.matrix)
              /\ ~Named(key) =>
                    ScoresOf(file.matrix, key[1], key[2])[key[3]]
                    = ScoresOf(last.loaded.matrix, key[1], key[2])[key[3]]
        /\ \A key \in Keys(file.matrix) \ Keys(last.loaded.matrix) : Named(key)

\* research v2 was updated for "testing": that score changed, its "planning"
\* score and research v1's "testing" score did not
C27_Witness ==
    /\ Updated
    /\ last.task_type = "testing"
    /\ <<"research", "v2">> \in TouchedPairs
    /\ ScoresOf(file.matrix, "research", "v2")["testing"]
         # ScoresOf(last.loaded.matrix, "research", "v2")["testing"]
    /\ ScoresOf(file.matrix, "research", "v2")["planning"]
         = ScoresOf(last.loaded.matrix, "research", "v2")["planning"]
    /\ ScoresOf(file.matrix, "research", "v1")["testing"]
         = ScoresOf(last.loaded.matrix, "research", "v1")["testing"]

----------------------------------------------------------------------------
(* Properties of one adjustment *)

Adjusted1 == pure.fn = "adjust" /\ pure.ret # {}

\* the stored score moved from current in the direction of the sign of delta
MovedWith(new, current, delta) ==
    /\ delta > 0 => new > current
    /\ delta < 0 => new < current

\* |x|
Abs(x) == IF x < 0 THEN -x ELSE x

\* |fitness_delta * rate| is more than half a thousandth
AboveHalfStep(delta, rate) == 2 * Abs(delta) * rate[1] > rate[2]

\* C28 as stated: at every observation count, an update with any nonzero
\* fitness_delta on a score strictly inside (0.1, 0.99) that is not pushed onto
\* a bound changes the stored score in the direction of the delta's sign.
C28_NeverFreezes ==
    Adjusted1 =>
        \A new \in pure.ret :
           (pure.arg.fitness_delta # 0 /\ new \notin {100, 990}) =>
               MovedWith(new, pure.arg.current, pure.arg.fitness_delta)

\* C28 amended: at every observation count the driver's +0.05 and -0.02, and
\* every fitness_delta whose adjustment |fitness_delta * rate| exceeds 0.0005,
\* change a stored score strictly inside (0.1, 0.99) that is not pushed onto a
\* bound in the direction of the delta's sign.
C28_DriverNeverFreezes ==
    Adjusted1 =>
        LET rate == ClaimedRate(pure.arg.observations)
            delta == pure.arg.fitness_delta
        IN  /\ delta \in {-20, 50} => AboveHalfStep(delta, rate)
            /\ \A new \in pure.ret :
                  (AboveHalfStep(delta, rate) /\ new \notin {100, 990}) =>
                      MovedWith(new, pure.arg.current, delta)

\* at the floor of the rate (observations = 600), -0.02 moved 0.72 down by 0.001
C28_Witness ==
    /\ Adjusted1
    /\ pure.arg = [observations |-> 600, current |-> 720, fitness_delta |-> -20]
    /\ pure.ret = {719}

----------------------------------------------------------------------------
(* Properties of the default state *)

\* C29: whenever no readable persisted state exists, load_affinity_matrix
\* returns exactly the literal seed scores, with observations 0 and no
\* last_updated, whatever update_affinity calls the process made before.
C29_DefaultLoadIsSeed ==
    (last.op = "load" /\ file.kind \in {"missing", "unparsable"}) =>
        last.loaded = DefaultState(SeedAffinity)

----------------------------------------------------------------------------
(* Properties of learn_from_telemetry *)

\* the run has printed its report
Reported == pure.fn = "learn" /\ pure.ret.reported # << >>

\* the positions <<session, event>> of the valid events of the run
ValidEvents ==
    UNION { { <<i, j>> : j \in { k \in 1..Len(pure.arg.sessions[i].events) :
                                   pure.arg.sessions[i].events[k].kind = "valid" } } :
            i \in 1..Len(pure.arg.sessions) }

\* C25: a failing event does not stop the batch: when the run has finished,
\* update_affinity has been called for every valid event, those after a failed
\* event of the same session file included.
C25_BatchNeverAborts == Reported => ValidEvents \subseteq pure.ret.attempted

\* C30: when the run has finished, the number reported equals the number of
\* update_affinity calls that returned, which equals the increase of the
\* persisted observations counter over the run.
C30_ReportedIsIncrease ==
    Reported =>
        /\ pure.ret.reported[1] = pure.ret.returned
        /\ pure.ret.returned = PersistedObservations - pure.ret.start

====
